---- MODULE Spec2Model ----
(***************************************************************************)
(* Submodule Updater (package sur): target resolution (cli.py) and the     *)
(* per-target update / publication engine (update.py).                     *)
(*                                                                         *)
(* Names are sequences of one-character strings, so that startswith,       *)
(* endswith, rstrip, the \d+$ search and the f-string concatenations of    *)
(* the source are computed as the source computes them.                    *)
(***************************************************************************)
EXTENDS Integers, Sequences, FiniteSets, TLC

\* ------------------------------------------------------------------ bounds
\* Longest list of TARGET_REPOSITORY:BRANCH arguments tried.
MaxTargets == 2
\* Most submodule entries listed by one cloned working copy.
MaxEntries == 2
\* Most runs of update_submodules on one working copy.
MaxRuns == 2
\* Most branches of the repository find_latest_branch is given.
MaxBranches == 3
\* Most forks the target repository has before get_or_create_fork is called.
MaxForks == 3
\* Most calls of create_fork on one repository.
MaxCreateForkCalls == 2

\* ------------------------------------------------------- the hosted world
\* Hosted repositories that can be named as targets (owner/name).
Repos == { [owner |-> "o1", name |-> "app"], [owner |-> "o2", name |-> "app"] }

NoTarget == [owner |-> "", name |-> ""]

main == <<"m">>
r2 == <<"r", "2">>
r3 == <<"r", "3">>
r10 == <<"r", "1", "0">>
rx == <<"r", "x">>

\* What repo.branches() can answer for an existing repository, in API order.
Listings == { <<main>>, <<main, r3, r10, r2>>, <<main, rx, r2>> }

\* A repository of the hosting service: absent (lookup raises NotFoundError)
\* or present with its branches.
RepoStates ==
    {[exists |-> FALSE, branches |-> <<>>]}
        \cup {[exists |-> TRUE, branches |-> l] : l \in Listings}

Worlds == [Repos -> RepoStates]

\* Branch tokens of the command line (the part after the colon).
Tokens == { <<>>, main, <<"s">>, <<"s", "?">>, <<"r", "2", "?">>, <<"r", "*">> }

NoColon == <<":missing">>

\* A TARGET_REPOSITORY:BRANCH argument; branch = NoColon when it has no colon.
Specifiers == [repo : Repos, branch : Tokens \cup {NoColon}]

RECURSIVE SeqsUpTo(_, _)
SeqsUpTo(S, n) ==
    IF n = 0 THEN { <<>> }
    ELSE LET shorter == SeqsUpTo(S, n - 1)
         IN  shorter \cup { Append(s, x) : s \in shorter, x \in S }

\* ------------------------------------------------------- string functions
Digits == {"0", "1", "2", "3", "4", "5", "6", "7", "8", "9"}

DigitVal(c) ==
    CASE c = "0" -> 0 [] c = "1" -> 1 [] c = "2" -> 2 [] c = "3" -> 3
      [] c = "4" -> 4 [] c = "5" -> 5 [] c = "6" -> 6 [] c = "7" -> 7
      [] c = "8" -> 8 [] c = "9" -> 9

startswith(s, p) == Len(s) >= Len(p) /\ SubSeq(s, 1, Len(p)) = p

endswith(s, c) == Len(s) > 0 /\ s[Len(s)] = c

RECURSIVE rstrip(_, _)
rstrip(s, c) ==
    IF endswith(s, c) THEN rstrip(SubSeq(s, 1, Len(s) - 1), c) ELSE s

\* re.search(r'\d+$', name): the maximal trailing run of digits, <<>> = None.
RECURSIVE TrailingDigits(_)
TrailingDigits(s) ==
    IF Len(s) > 0 /\ s[Len(s)] \in Digits
    THEN Append(TrailingDigits(SubSeq(s, 1, Len(s) - 1)), s[Len(s)])
    ELSE <<>>

\* int(digits)
RECURSIVE int(_)
int(d) ==
    IF d = <<>> THEN 0
    ELSE 10 * int(SubSeq(d, 1, Len(d) - 1)) + DigitVal(d[Len(d)])

\* -------------------------------------------------------------- cli.py
RECURSIVE SelectFirstMin(_, _)
SelectFirstMin(bs, i) ==
    IF i = Len(bs) THEN bs[i]
    ELSE LET rest == SelectFirstMin(bs, i + 1)
         IN  IF int(TrailingDigits(bs[i])) <= int(TrailingDigits(rest))
             THEN bs[i] ELSE rest

RECURSIVE SelectFirstMax(_, _)
\* branches.sort(key=..., reverse=True); branches[0]: the sort is stable, so
\* the first branch in listing order among those with the largest key.
SelectFirstMax(bs, i) ==
    IF i = Len(bs) THEN bs[i]
    ELSE LET rest == SelectFirstMax(bs, i + 1)
         IN  IF int(TrailingDigits(bs[i])) >= int(TrailingDigits(rest))
             THEN bs[i] ELSE rest

\* find_latest_branch: "ok" with the branch, "notfound" (NotFoundError), or
\* "error" (re.search returned None for some matching name: AttributeError).
find_latest_branch(listing, branch_startswith) ==
    LET branches == SelectSeq(listing,
                              LAMBDA b : startswith(b, branch_startswith))
    IN  IF \E i \in 1..Len(branches) : TrailingDigits(branches[i]) = <<>>
        THEN [tag |-> "error", branch |-> <<>>]
        ELSE IF branches = <<>>
        THEN [tag |-> "notfound", branch |-> <<>>]
        ELSE [tag |-> "ok", branch |-> SelectFirstMax(branches, 1)]

default_branch == main

InListing(listing, name) == \E i \in 1..Len(listing) : listing[i] = name

\* except NotFoundError: optional targets are skipped (None is returned with
\* a warning), any other target is a click.BadParameter.
on_not_found_skip_all(is_optional) == "none"

on_not_found_always_fatal(is_optional) == "bad"

on_not_found(is_optional) == IF is_optional THEN "none" ELSE "bad"

\* acquire_valid_branches_for_repos: "ok" with the Branch, "none" (optional
\* target skipped with a warning) or "bad" (click.BadParameter).
acquire_valid_branches_for_repos(w, target, is_optional, auto_latest_branch, repo) ==
    LET listing == w[repo].branches
        found ==
            IF ~w[repo].exists THEN [tag |-> "notfound", branch |-> <<>>]
            ELSE IF auto_latest_branch
            THEN find_latest_branch(listing, target)
            ELSE LET branch_name ==
                         IF target = <<>> THEN default_branch ELSE target
                 IN  IF InListing(listing, branch_name)
                     THEN [tag |-> "ok", branch |-> branch_name]
                     ELSE [tag |-> "notfound", branch |-> <<>>]
    IN  CASE found.tag = "ok" -> found
          [] found.tag = "notfound" ->
                 [tag |-> on_not_found(is_optional), branch |-> <<>>]
          [] OTHER -> [tag |-> "bad", branch |-> <<>>]

\* validated_branches[repo] = branch_obj on an insertion-ordered dict.
DictSet(d, repo, branch) ==
    IF \E i \in 1..Len(d) : d[i].repo = repo
    THEN [i \in 1..Len(d) |->
             IF d[i].repo = repo THEN [repo |-> repo, branch |-> branch]
             ELSE d[i]]
    ELSE Append(d, [repo |-> repo, branch |-> branch])

\* One iteration of the loop of validate_and_acquire_branches on one
\* argument: the mapping after it, or "bad" for click.BadParameter.
ValidateTarget(w, validated_branches, target) ==
    IF target.branch = NoColon
    THEN [tag |-> "bad", targets |-> validated_branches, skipped |-> FALSE]
    ELSE LET is_optional == endswith(target.branch, "?")
             auto_latest_branch == endswith(target.branch, "*")
             b1 == IF auto_latest_branch
                   THEN rstrip(target.branch, "*") ELSE target.branch
             branch == IF is_optional THEN rstrip(b1, "?") ELSE b1
             branch_obj == acquire_valid_branches_for_repos(
                               w, branch, is_optional, auto_latest_branch,
                               target.repo)
         IN  CASE branch_obj.tag = "bad" ->
                     [tag |-> "bad", targets |-> validated_branches,
                      skipped |-> FALSE]
               [] branch_obj.tag = "none" ->
                     [tag |-> "ok", targets |-> validated_branches,
                      skipped |-> TRUE]
               [] OTHER ->
                     [tag |-> "ok",
                      targets |-> DictSet(validated_branches, target.repo,
                                          branch_obj.branch),
                      skipped |-> FALSE]

\* ------------------------------------------------------------ update.py
\* Objects of the source repository: the commit the reference resolves to,
\* a commit with the same tree, a commit with another tree, and an
\* annotated tag object pointing at the target commit.
Commits == {"cT", "cSame", "cDiff"}

tree_id(c) == IF c = "cDiff" THEN "tree2" ELSE "tree1"

\* Tag.get_object(): the object an annotated tag points at.
get_object(o) == IF o = "tagT" THEN "cT" ELSE o

\* source_repository.ref(...): a branch, a lightweight tag, or an annotated
\* tag, whose object.sha is then the id of the tag object.
References ==
    { [ref |-> <<"refs/heads/", "b">>, sha |-> "cT", type |-> "commit"],
      [ref |-> <<"refs/tags/", "t">>, sha |-> "cT", type |-> "commit"],
      [ref |-> <<"refs/tags/", "t">>, sha |-> "tagT", type |-> "tag"] }

NoRef == [ref |-> <<>>, sha |-> "", type |-> ""]

\* The source repository and another repository of the hosting service.
source_repo == [owner |-> "o", name |-> "lib"]

other_repo == [owner |-> "o", name |-> "tool"]

\* URLs are sequences of their parts; a URL without suffix has no last part.
Url(scheme, host, sep, owner, name, suffix) ==
    <<scheme, host, sep, owner, "/", name>>
        \o (IF suffix = "" THEN <<>> ELSE <<suffix>>)

\* The URLs the hosting service reports for a repository.
clone_url(repo) == Url("https://", "github.com", "/", repo.owner, repo.name, ".git")

git_url(repo) == Url("git://", "github.com", "/", repo.owner, repo.name, ".git")

ssh_url(repo) == Url("git@", "github.com", ":", repo.owner, repo.name, ".git")

html_url(repo) == Url("https://", "github.com", "/", repo.owner, repo.name, "")

\* The four URLs and, for those ending in .git, the URL without it.
possible_clone_urls(repo) ==
    LET urls == {clone_url(repo), git_url(repo), ssh_url(repo), html_url(repo)}
    IN  urls \cup { SubSeq(url, 1, Len(url) - 1) :
                        url \in { u \in urls : u[Len(u)] = ".git" } }

\* No _possible_clone_urls attribute on the repository yet.
NoUrls == {}

\* Outcomes of `git fetch <remote> <sha>` over the remotes of a submodule,
\* in declared order.
FetchPlans ==
    { <<>>, <<TRUE>>, <<FALSE>>, <<FALSE, TRUE>>, <<TRUE, FALSE>>, <<TRUE, TRUE>> }

\* URLs of submodule entries: two the hosting service reports for the source
\* repository, the ssh:// spelling of the source repository, and the URL of
\* another repository.
ssh_scheme_url(repo) == Url("ssh://git@", "github.com", "/", repo.owner, repo.name, ".git")

\* A submodule declared by a submodule: its URL, whether
\* `git submodule update --init` succeeds on it, and whether it has been
\* initialised, hard-reset or staged.
Nested(url, init) ==
    [url |-> url, init |-> init, initialised |-> FALSE, reset |-> FALSE,
     staged |-> FALSE]

NestedPlans ==
    { <<Nested(clone_url(source_repo), TRUE)>>,
      <<Nested(clone_url(other_repo), TRUE)>>,
      <<Nested(clone_url(source_repo), FALSE)>> }

\* A top-level submodule entry of a cloned working copy: its URL, its HEAD,
\* whether `git submodule update --init` succeeds, whether the object named
\* by the reference is in its object store, what fetching from each of its
\* remotes gives, and its own submodules; then what has been done to it:
\* initialised, hard-reset, staged in the parent index, and the number of
\* remotes the last fetch_object fetched from.
Entry(url, head, init, has, remotes, nested) ==
    [url |-> url, head |-> head, init |-> init, has |-> has,
     remotes |-> remotes, nested |-> nested, initialised |-> FALSE,
     reset |-> FALSE, staged |-> FALSE, fetched |-> 0]

Entries ==
    { Entry(u, "cDiff", TRUE, FALSE, <<>>, <<>>) :
        u \in {ssh_scheme_url(source_repo), clone_url(other_repo)} }
    \cup { Entry(git_url(source_repo), "cDiff", FALSE, FALSE, <<>>, <<>>) }
    \cup { Entry(clone_url(source_repo), h, TRUE, TRUE, <<>>, <<>>) :
            h \in Commits }
    \cup { Entry(git_url(source_repo), "cDiff", TRUE, TRUE, <<>>, <<>>) }
    \cup { Entry(clone_url(source_repo), "cDiff", TRUE, TRUE, <<>>, n) :
            n \in NestedPlans }
    \cup { Entry(clone_url(source_repo), "cT", TRUE, TRUE, <<>>,
                  <<Nested(clone_url(source_repo), TRUE)>>) }
    \cup { Entry(clone_url(source_repo), "cDiff", TRUE, FALSE, f, <<>>) :
            f \in FetchPlans }
    \cup { Entry(clone_url(source_repo), "cSame", TRUE, FALSE, f, <<>>) :
            f \in { <<>>, <<TRUE>> } }
    \cup { Entry(clone_url(source_repo), "cT", TRUE, FALSE, <<TRUE>>, <<>>) }

WorkingCopies == SeqsUpTo(Entries, MaxEntries)

\* match_remote_url: the candidate URLs are computed when the repository has
\* none cached (NoUrls), and the remote URL is looked up among them as it is.
match_remote_url_any(cached, repo, remote_url) ==
    [matched |-> TRUE,
     cached |-> IF cached = NoUrls THEN possible_clone_urls(repo) ELSE cached]

match_remote_url(cached, repo, remote_url) ==
    LET urls == IF cached = NoUrls THEN possible_clone_urls(repo) ELSE cached
    IN  [matched |-> remote_url \in urls, cached |-> urls]

\* set_submodule_url: ^git://github\.com/ becomes https://github.com/.
set_submodule_url(url) ==
    IF url[1] = "git://" /\ url[2] = "github.com" /\ url[3] = "/"
    THEN [url EXCEPT ![1] = "https://"]
    ELSE url

\* init_submodule on a nested submodule: `git submodule update --init`,
\* whatever the URL; nested[k] is the first one on which it fails, if any.
RECURSIVE init_nested(_, _)
init_nested(nested, k) ==
    IF k > Len(nested) THEN [ok |-> TRUE, nested |-> nested]
    ELSE IF ~nested[k].init THEN [ok |-> FALSE, nested |-> nested]
    ELSE init_nested([nested EXCEPT ![k].initialised = TRUE], k + 1)

\* init_submodule on a top-level entry: a git:// URL is rewritten first, then
\* `git submodule update --init` runs (GitError when it fails), then every
\* submodule of the submodule is initialised in turn.
init_submodule_without_nested(e) ==
    LET rewritten == IF e.url[1] = "git://"
                     THEN [e EXCEPT !.url = set_submodule_url(e.url)]
                     ELSE e
    IN  IF ~e.init THEN [ok |-> FALSE, entry |-> rewritten]
        ELSE [ok |-> TRUE, entry |-> [rewritten EXCEPT !.initialised = TRUE]]

init_submodule(e) ==
    LET rewritten == IF e.url[1] = "git://"
                     THEN [e EXCEPT !.url = set_submodule_url(e.url)]
                     ELSE e
    IN  IF ~e.init THEN [ok |-> FALSE, entry |-> rewritten]
        ELSE LET subs == init_nested(e.nested, 1)
             IN  [ok |-> subs.ok,
                  entry |-> [rewritten EXCEPT !.initialised = TRUE,
                                              !.nested = subs.nested]]

\* fetch_object: fetches from every remote in turn and raises GitError at the
\* first fetch that fails; `tried` is the number of remotes fetched from.
fetch_object(remotes) ==
    LET failing == { i \in 1..Len(remotes) : ~remotes[i] }
        firstFail == IF failing = {} THEN 0
                     ELSE CHOOSE i \in failing : \A j \in failing : i <= j
    IN  [ok |-> failing = {},
         tried |-> IF failing = {} THEN Len(remotes) ELSE firstFail]

\* prev_tree_id != new_tree_id: the HEAD tree against the target's tree.
tree_differs_by_commit(head, ref_object) == head # ref_object

tree_differs(head, ref_object) == tree_id(head) # tree_id(ref_object)

\* Repository.reset(oid, GIT_RESET_HARD): HEAD moves to the commit the object
\* peels to.
reset(e, oid) == [e EXCEPT !.head = get_object(oid), !.has = TRUE, !.reset = TRUE]

\* index.add(submodule_path)
index_add(e) == [e EXCEPT !.staged = TRUE]

\* One iteration of the loop of update_submodules over a submodule entry:
\*   "continue" (entry skipped), "updated" (reset and staged, count += 1),
\*   "raise" (GitError or KeyError leaves update_submodules).
UpdateEntry(ref, e) ==
    IF ~match_remote_url(NoUrls, source_repo, e.url).matched
    THEN [kind |-> "continue", entry |-> e, tree_changed |-> FALSE]
    ELSE LET opened == init_submodule(e)
             subrepo == opened.entry
         IN  IF ~opened.ok
             THEN [kind |-> "raise", entry |-> subrepo, tree_changed |-> FALSE]
             ELSE IF subrepo.head = ref.sha
             THEN [kind |-> "continue", entry |-> subrepo, tree_changed |-> FALSE]
             ELSE LET fetch == IF subrepo.has THEN [ok |-> TRUE, tried |-> 0]
                               ELSE fetch_object(subrepo.remotes)
                      fetched == IF subrepo.has THEN subrepo
                                 ELSE [subrepo EXCEPT !.fetched = fetch.tried]
                      present == subrepo.has \/ (fetch.ok /\ fetch.tried > 0)
                  IN  IF ~present
                      THEN [kind |-> "raise", entry |-> fetched,
                            tree_changed |-> FALSE]
                      ELSE LET ref_object == IF ref.type = "tag"
                                             THEN get_object(ref.sha)
                                             ELSE ref.sha
                           IN  [kind |-> "updated",
                                entry |-> index_add(reset(fetched, ref.sha)),
                                tree_changed |->
                                    tree_differs(subrepo.head, ref_object)]

\* What an iteration leaves to the rest of update_submodules, the entry
\* apart: how it ended and whether it found the tree changed.
StepResult(step) == [kind |-> step.kind, tree_changed |-> step.tree_changed]

\* The accumulators of update_submodules before its loop.
NoProgress ==
    [count |-> 0, tree_changed |-> FALSE, seen |-> 0, raised |-> FALSE]

\* The accumulators after one more iteration.
Accumulate(acc, step) ==
    IF acc.raised THEN acc
    ELSE [count |-> acc.count + (IF step.kind = "updated" THEN 1 ELSE 0),
          tree_changed |-> acc.tree_changed \/ step.tree_changed,
          seen |-> acc.seen + 1,
          raised |-> step.kind = "raise"]

\* config.committer, and the signature of whoever made the cloned history.
committer == [name |-> "bot", email |-> "bot@example.com"]

NoSignature == [name |-> "", email |-> ""]

\* No commit.
NoCommit ==
    [id |-> <<>>, repo |-> NoTarget, parents |-> <<>>, author |-> NoSignature,
     committer |-> NoSignature, message |-> <<>>]

\* The id of the commit the cloned branch points at before any update.
clone_head == <<"base">>

\* The paths listall_submodules() gives, in its order.
SubmodulePaths == <<"lib", "vendor/lib", "deps/lib", "third_party/lib">>

submodule_path(i) == SubmodulePaths[i]

\* The commit message, as the pieces of the formatted string.
message_always_plural(submodule_source_repository, oid, count) ==
    <<"Update ", submodule_source_repository.name, " submodule", "s", " to ",
      submodule_source_repository.owner, "/",
      submodule_source_repository.name, "@", oid,
      "\n\nThis commit was automatically generated by Submodule Updater.">>

message(submodule_source_repository, oid, count) ==
    <<"Update ", submodule_source_repository.name, " submodule",
      (IF count > 1 THEN "s" ELSE ""), " to ",
      submodule_source_repository.owner, "/",
      submodule_source_repository.name, "@", oid,
      "\n\nThis commit was automatically generated by Submodule Updater.">>

\* Repository.create_commit: a commit with the given parents; its id stands
\* for the hash of what it holds.
create_commit_without_parent(repo, author, committer_, message_, parents) ==
    [id |-> <<"update">> \o Head(parents), repo |-> repo, parents |-> <<>>,
     author |-> author, committer |-> committer_, message |-> message_]

create_commit(repo, author, committer_, message_, parents) ==
    [id |-> <<"update">> \o Head(parents), repo |-> repo, parents |-> parents,
     author |-> author, committer |-> committer_, message |-> message_]

\* What update_submodules does after its loop when count is not zero: the
\* commit on top of the branch head, signed by the committer on both sides.
update_commit(repo, head_target, ref, count) ==
    create_commit(repo, committer, committer,
                  message(source_repo, ref.sha, count), <<head_target>>)

\* update_submodules on a whole working copy: the working copy after it and
\* what it returns: "none", "commit" with the tree_changed flag, or "raise".
RECURSIVE Loop(_, _, _, _)
Loop(ref, wc, i, acc) ==
    IF i > Len(wc) \/ acc.raised THEN [wc |-> wc, acc |-> acc]
    ELSE LET step == UpdateEntry(ref, wc[i])
         IN  Loop(ref, [wc EXCEPT ![i] = step.entry], i + 1,
                  Accumulate(acc, step))

\* What update_submodules returns after its loop: None when count is zero.
Returned_always_commit(acc) ==
    IF acc.raised THEN [kind |-> "raise", tree_changed |-> FALSE]
    ELSE [kind |-> "commit", tree_changed |-> acc.tree_changed]

Returned(acc) ==
    IF acc.raised THEN [kind |-> "raise", tree_changed |-> FALSE]
    ELSE IF acc.count = 0 THEN [kind |-> "none", tree_changed |-> FALSE]
    ELSE [kind |-> "commit", tree_changed |-> acc.tree_changed]

update_submodules(ref, wc) ==
    LET end == Loop(ref, wc, 1, NoProgress)
    IN  [wc |-> end.wc, updated |-> Returned(end.acc),
         count |-> end.acc.count, seen |-> end.acc.seen]

\* github.me().login, and the logins of other owners of forks.
me == "bot"

Logins == {me, "alice", "bob", "carol"}

\* The loop of get_or_create_fork over repository.forks(): the position of
\* the first fork whose owner's login is `login`, or 0 when there is none.
find_fork_never(login, forks) == 0

find_fork(login, forks) ==
    LET own == { i \in 1..Len(forks) : forks[i] = login }
    IN  IF own = {} THEN 0 ELSE CHOOSE i \in own : \A j \in own : i <= j

\* The lists of fork owners repository.forks() can give.
ForkLists ==
    { l \in SeqsUpTo(Logins, MaxForks) :
        \A i, j \in 1..Len(l) : i # j => l[i] # l[j] }

\* trim_ref
trim_ref(ref) ==
    IF Head(ref.ref) = "refs/heads/" THEN [name |-> Tail(ref.ref), type |-> "branch"]
    ELSE IF Head(ref.ref) = "refs/tags/" THEN [name |-> Tail(ref.ref), type |-> "tag"]
    ELSE [name |-> ref.ref, type |-> "none"]

\* The temporary branch push_commit creates and pushes.
push_branch_name(target_branch, commit) ==
    <<"submodule-update/">> \o target_branch \o <<"--">> \o commit.id

\* The temporary branch open_pull_request creates and pushes to the fork.
pull_branch_name(ref, commit) ==
    <<"submodule-update/", source_repo.name, "/">> \o trim_ref(ref).name
        \o <<"--">> \o commit.id

\* if not tree_changed and not config.dry_run: the direct push is tried.
direct_push_in_dry_run(tree_changed, dry) == ~tree_changed

direct_push_any_tree(tree_changed, dry) == ~dry

direct_push(tree_changed, dry) == ~tree_changed /\ ~dry

\* Where the process goes when update_target_repo raises: run has no handler
\* around the call, so the exception leaves run and ends the process.
on_target_error == "crashed"

\* Where the process goes when an iteration of update_submodules raises:
\* nothing in the loop, in update_submodules or in update_target_repo catches
\* GitError or KeyError, so the exception leaves all three.
on_entry_error_swallowed == "update_submodules"

on_entry_error == on_target_error

\* Where update_target_repo goes when push_commit raises GitError.
on_push_error_propagates == "crashed"

on_push_error_posts_status == "status_push"

on_push_error == "get_or_create_fork"

\* Where update_target_repo goes when create_status raises GitHubException.
on_status_error_propagates == "crashed"

on_status_error == "run"

\* Where update_target_repo goes after the status step: it returns, after
\* the direct push as well as after the pull request.
after_status_push_falls_through(context) ==
    IF context = "submodule-updater/push/" THEN "get_or_create_fork" ELSE "run"

after_status(context) == "run"

\* open_pull_request creates the pull request unless dry_run.
creates_pull(dry) == ~dry

Outcomes ==
    {"Pending", "NoOp", "PushedDirectly", "ReviewRequestOpened",
     "DryRunBranch", "Failed"}

\* ----------------------------------------------------------------- state
VARIABLES
    pc,             \* where the process is
    argv,           \* TARGET arguments not yet validated
    world,          \* repositories and branches of the hosting service
    targets,        \* validated_branches / config.targets, in dict order
    skipped,        \* optional targets skipped with a warning
    ref,            \* config.ref
    dry_run,        \* config.dry_run
    cur,            \* position of run's loop in config.targets
    sub,            \* update_submodules: count, tree_changed, entries seen
    commit,         \* update_target_repo: the commit update_submodules returned
    tree_changed,   \* update_target_repo: the flag returned with the commit
    clones,         \* targets whose clone was started
    push_attempts,  \* targets whose own remote a push was attempted to
    push_failed,    \* targets whose direct push raised GitError
    origin,         \* branches pushed to the targets' own remotes
    forks_created,  \* targets that create_fork was called for
    fork_refs,      \* branches pushed to the forks
    pulls,          \* pull requests created
    statuses,       \* commit statuses posted on the source reference
    status_failed,  \* targets whose create_status raised GitHubException
    outcome,        \* how update_target_repo ended for each target
    repo_branches,  \* find_latest_branch: what repo.branches() answers
    prefix,         \* find_latest_branch: branch_startswith
    latest,         \* find_latest_branch: what the call gave
    cloned_repository,  \* a working copy update_submodules is run on
    returned,       \* what the runs of update_submodules on it returned
    remote_url,     \* match_remote_url: the URL of the last call
    cached_urls,    \* match_remote_url: repo._possible_clone_urls
    matched,        \* match_remote_url: what the last call returned
    head_target,    \* cloned_repository.head.target of that working copy
    repo_forks,     \* get_or_create_fork: owners of repository.forks()
    fork,           \* get_or_create_fork: what the last call gave
    create_fork_calls   \* get_or_create_fork: calls of create_fork so far

vars ==
    <<pc, argv, world, targets, skipped, ref, dry_run, cur, sub, commit,
      tree_changed, clones, push_attempts, push_failed, origin, forks_created, fork_refs,
      pulls, statuses, status_failed, outcome, repo_branches, prefix, latest,
      cloned_repository, returned, remote_url, cached_urls, matched,
      head_target, repo_forks, fork, create_fork_calls>>

cliVars == <<argv, world, targets, skipped, ref, dry_run>>

effectVars ==
    <<clones, push_attempts, push_failed, origin, forks_created, fork_refs,
      pulls, statuses, status_failed>>

\* The state of the calls of find_latest_branch taken on their own.
latestVars == <<repo_branches, prefix, latest>>

NotCalled == [tag |-> "not called", branch |-> <<>>]

NoLatest ==
    /\ repo_branches = <<>>
    /\ prefix = <<>>
    /\ latest = NotCalled

\* The state of the calls of match_remote_url taken on their own.
urlVars == <<remote_url, cached_urls, matched>>

NoUrlCall ==
    /\ remote_url = <<>>
    /\ cached_urls = NoUrls
    /\ matched = FALSE

\* The state of the calls of get_or_create_fork taken on their own.
forkVars == <<repo_forks, fork, create_fork_calls>>

NoFork == [tag |-> "not called", owner |-> "", position |-> 0]

NoForkCall ==
    /\ repo_forks = <<>>
    /\ fork = NoFork
    /\ create_fork_calls = 0

updateVars ==
    <<cloned_repository, returned, head_target, latestVars, urlVars, forkVars>>

\* The local variables of update_target_repo and update_submodules.
locals == <<sub, commit, tree_changed>>

NoEffects ==
    /\ clones = {}
    /\ push_attempts = {}
    /\ push_failed = {}
    /\ origin = {}
    /\ forks_created = {}
    /\ fork_refs = {}
    /\ pulls = {}
    /\ statuses = {}
    /\ status_failed = {}

InitRun ==
    /\ targets = <<>>
    /\ skipped = <<>>
    /\ ref = NoRef
    /\ dry_run = FALSE
    /\ cur = 0
    /\ sub = NoProgress
    /\ commit = NoCommit
    /\ tree_changed = FALSE
    /\ NoEffects
    /\ outcome = [r \in Repos |-> "Pending"]

\* The process starts with its arguments; click then runs the callbacks.
Init ==
    /\ pc = "validate"
    /\ argv \in SeqsUpTo(Specifiers, MaxTargets) \ { <<>> }
    /\ world \in Worlds
    /\ InitRun
    /\ cloned_repository = <<>>
    /\ returned = <<>>
    /\ head_target = clone_head
    /\ NoLatest
    /\ NoUrlCall
    /\ NoForkCall

target_repo == targets[cur].repo

target_branch == targets[cur].branch

\* ---------------------------------------------------------------- cli.py
\* One iteration of the loop of the targets callback.
validate_and_acquire_branches ==
    /\ pc = "validate"
    /\ argv # <<>>
    /\ LET r == ValidateTarget(world, targets, Head(argv))
       IN  /\ pc' = IF r.tag = "bad" THEN "usage_error" ELSE "validate"
           /\ targets' = r.targets
           /\ skipped' = IF r.skipped THEN Append(skipped, Head(argv))
                         ELSE skipped
           /\ argv' = IF r.tag = "bad" THEN argv ELSE Tail(argv)
    /\ UNCHANGED <<world, ref, dry_run, cur, sub, commit, tree_changed, outcome>>
    /\ UNCHANGED effectVars
    /\ UNCHANGED updateVars

\* The body of cli: the source reference is looked up, the Config is made
\* and run is called.
cli ==
    /\ pc = "validate"
    /\ argv = <<>>
    /\ \E reference \in References \cup {NoRef}, d \in BOOLEAN :
          IF reference = NoRef
          THEN /\ pc' = "usage_error"
               /\ UNCHANGED <<ref, dry_run>>
          ELSE /\ pc' = "run"
               /\ ref' = reference
               /\ dry_run' = d
    /\ UNCHANGED <<argv, world, targets, skipped, cur, sub, commit, tree_changed,
                   outcome>>
    /\ UNCHANGED effectVars
    /\ UNCHANGED updateVars

\* ------------------------------------------------------------- update.py
\* An exception leaves update_target_repo.
Raise(repo) ==
    /\ pc' = on_target_error
    /\ outcome' = [outcome EXCEPT ![repo] = "Failed"]

\* run takes the next target; update_target_repo clones it.
clone ==
    /\ pc = "run"
    /\ cur < Len(targets)
    /\ cur' = cur + 1
    /\ clones' = clones \cup {targets[cur + 1].repo}
    /\ UNCHANGED locals
    /\ \E ok \in BOOLEAN :
          IF ok THEN pc' = "update_submodules" /\ outcome' = outcome
          ELSE Raise(targets[cur + 1].repo)
    /\ UNCHANGED cliVars
    /\ UNCHANGED <<push_attempts, push_failed, origin, forks_created,
                   fork_refs, pulls, statuses, status_failed>>
    /\ UNCHANGED updateVars

\* run has gone through config.targets.
exit ==
    /\ pc = "run"
    /\ cur = Len(targets)
    /\ pc' = "exit"
    /\ UNCHANGED <<cur, sub, commit, tree_changed, outcome>>
    /\ UNCHANGED cliVars
    /\ UNCHANGED effectVars
    /\ UNCHANGED updateVars

\* update_submodules: one iteration of its loop, on the next submodule entry
\* of the cloned working copy.
update_entry ==
    /\ pc = "update_submodules"
    /\ sub.seen < MaxEntries
    /\ \E step \in { StepResult(UpdateEntry(ref, e)) : e \in Entries } :
          /\ sub' = Accumulate(sub, step)
          /\ IF step.kind = "raise" /\ on_entry_error = on_target_error
             THEN Raise(target_repo)
             ELSE IF step.kind = "raise"
             THEN pc' = on_entry_error /\ outcome' = outcome
             ELSE pc' = pc /\ outcome' = outcome
    /\ UNCHANGED <<cur, commit, tree_changed>>
    /\ UNCHANGED cliVars
    /\ UNCHANGED effectVars
    /\ UNCHANGED updateVars

\* update_submodules after its loop, and update_target_repo's choice of how
\* to publish what it returned.
update_return ==
    /\ pc = "update_submodules"
    /\ LET updated == Returned(sub)
       IN  IF updated.kind = "none"
           THEN /\ pc' = "run"
                /\ outcome' = [outcome EXCEPT ![target_repo] = "NoOp"]
                /\ UNCHANGED <<commit, tree_changed>>
           ELSE /\ pc' = IF direct_push(updated.tree_changed, dry_run)
                         THEN "push_commit" ELSE "get_or_create_fork"
                /\ commit' = update_commit(target_repo, clone_head, ref,
                                            sub.count)
                /\ tree_changed' = updated.tree_changed
                /\ outcome' = outcome
    /\ sub' = NoProgress
    /\ cur' = cur
    /\ UNCHANGED cliVars
    /\ UNCHANGED effectVars
    /\ UNCHANGED updateVars

\* push_commit: the temporary branch is created and pushed to the target
\* repository's own remote under its own name.
push_commit ==
    /\ pc = "push_commit"
    /\ push_attempts' = push_attempts \cup {target_repo}
    /\ \E ok \in BOOLEAN :
          IF ok
          THEN /\ origin' = origin \cup
                     {[repo |-> target_repo,
                       ref |-> push_branch_name(target_branch, commit),
                       commit |-> commit]}
               /\ pc' = "status_push"
               /\ push_failed' = push_failed
          ELSE /\ push_failed' = push_failed \cup {target_repo}
               /\ pc' = on_push_error
               /\ origin' = origin
    /\ outcome' = IF pc' = on_target_error
                  THEN [outcome EXCEPT ![target_repo] = "Failed"]
                  ELSE outcome
    /\ UNCHANGED <<cur, sub, commit, tree_changed>>
    /\ UNCHANGED cliVars
    /\ UNCHANGED <<clones, forks_created, fork_refs, pulls, statuses,
                   status_failed>>
    /\ UNCHANGED updateVars

\* update_target_repo returns: its local variables are gone.
Return ==
    /\ commit' = NoCommit
    /\ tree_changed' = FALSE
    /\ sub' = sub

\* create_status with the context `context`, followed by the return of
\* update_target_repo with `result`.
CreateStatus(context, result) ==
    /\ Return
    /\ \E ok \in BOOLEAN :
        IF ok
        THEN /\ statuses' = statuses \cup
                    {[context |-> <<context, target_repo.name>>,
                      target |-> target_repo]}
             /\ status_failed' = status_failed
             /\ pc' = after_status(context)
             /\ outcome' = [outcome EXCEPT ![target_repo] = result]
        ELSE /\ status_failed' = status_failed \cup {target_repo}
             /\ statuses' = statuses
             /\ pc' = IF on_status_error = "run" THEN after_status(context)
                      ELSE on_status_error
             /\ outcome' = [outcome EXCEPT ![target_repo] =
                               IF on_status_error = on_target_error
                               THEN "Failed" ELSE result]

\* The status posted after the direct push.
status_push ==
    /\ pc = "status_push"
    /\ CreateStatus("submodule-updater/push/", "PushedDirectly")
    /\ cur' = cur
    /\ UNCHANGED cliVars
    /\ UNCHANGED <<clones, push_attempts, push_failed, origin, forks_created,
                   fork_refs, pulls>>
    /\ UNCHANGED updateVars

\* open_pull_request, first step: the fork is found among the forks of the
\* target, or created.
get_or_create_fork ==
    /\ pc = "get_or_create_fork"
    /\ \E found \in { find_fork(me, forks) # 0 : forks \in ForkLists },
          ok \in BOOLEAN :
          IF found
          THEN /\ pc' = "push_fork"
               /\ UNCHANGED <<forks_created, outcome>>
          ELSE /\ forks_created' = forks_created \cup {target_repo}
               /\ IF ok THEN pc' = "push_fork" /\ outcome' = outcome
                  ELSE Raise(target_repo)
    /\ UNCHANGED <<cur, sub, commit, tree_changed>>
    /\ UNCHANGED cliVars
    /\ UNCHANGED <<clones, push_attempts, push_failed, origin, fork_refs,
                   pulls, statuses, status_failed>>
    /\ UNCHANGED updateVars

\* open_pull_request, second step: the temporary branch is pushed to the
\* fork; in a dry run the branch is then looked up in the fork and returned.
push_fork ==
    /\ pc = "push_fork"
    /\ \E ok \in BOOLEAN, branch_found \in BOOLEAN :
          IF ok /\ ~creates_pull(dry_run) /\ ~branch_found
          THEN /\ fork_refs' = fork_refs \cup
                     {[repo |-> target_repo,
                       ref |-> pull_branch_name(ref, commit),
                       commit |-> commit]}
               /\ Raise(target_repo)
               /\ UNCHANGED locals
          ELSE IF ok
          THEN /\ fork_refs' = fork_refs \cup
                     {[repo |-> target_repo,
                       ref |-> pull_branch_name(ref, commit),
                       commit |-> commit]}
               /\ IF creates_pull(dry_run)
                  THEN /\ pc' = "create_pull"
                       /\ outcome' = outcome
                       /\ UNCHANGED locals
                  ELSE /\ pc' = "run"
                       /\ outcome' =
                              [outcome EXCEPT ![target_repo] = "DryRunBranch"]
                       /\ Return
          ELSE /\ fork_refs' = fork_refs
               /\ Raise(target_repo)
               /\ UNCHANGED locals
    /\ cur' = cur
    /\ UNCHANGED cliVars
    /\ UNCHANGED <<clones, push_attempts, push_failed, origin, forks_created,
                   pulls, statuses, status_failed>>
    /\ UNCHANGED updateVars

\* open_pull_request, last step: the pull request is created from the branch
\* of the fork against the target branch.
create_pull ==
    /\ pc = "create_pull"
    /\ \E ok \in BOOLEAN :
          IF ok
          THEN /\ pulls' = pulls \cup
                     {[repo |-> target_repo, base |-> target_branch,
                       head |-> pull_branch_name(ref, commit),
                       commit |-> commit]}
               /\ pc' = "status_pull"
               /\ outcome' = outcome
          ELSE /\ pulls' = pulls
               /\ Raise(target_repo)
    /\ UNCHANGED <<cur, sub, commit, tree_changed>>
    /\ UNCHANGED cliVars
    /\ UNCHANGED <<clones, push_attempts, push_failed, origin, forks_created,
                   fork_refs, statuses, status_failed>>
    /\ UNCHANGED updateVars

\* The status posted after the pull request was opened.
status_pull ==
    /\ pc = "status_pull"
    /\ CreateStatus("submodule-updater/pull/", "ReviewRequestOpened")
    /\ cur' = cur
    /\ UNCHANGED cliVars
    /\ UNCHANGED <<clones, push_attempts, push_failed, origin, forks_created,
                   fork_refs, pulls>>
    /\ UNCHANGED updateVars

Next ==
    \/ validate_and_acquire_branches
    \/ cli
    \/ clone
    \/ exit
    \/ update_entry
    \/ update_return
    \/ push_commit
    \/ status_push
    \/ get_or_create_fork
    \/ push_fork
    \/ create_pull
    \/ status_pull

Spec == Init /\ [][Next]_vars

\* ------------------------------------------- update_submodules on its own
\* update_submodules is run, and run again, on one working copy with one
\* source reference.
InitUpdate ==
    /\ pc = "update_submodules"
    /\ argv = <<>>
    /\ world = [r \in Repos |-> [exists |-> TRUE, branches |-> <<main>>]]
    /\ targets = <<>>
    /\ skipped = <<>>
    /\ ref \in References
    /\ dry_run = FALSE
    /\ cur = 0
    /\ sub = NoProgress
    /\ commit = NoCommit
    /\ tree_changed = FALSE
    /\ NoEffects
    /\ outcome = [r \in Repos |-> "Pending"]
    /\ cloned_repository \in WorkingCopies
    /\ returned = <<>>
    /\ head_target = clone_head
    /\ NoLatest
    /\ NoUrlCall
    /\ NoForkCall

\* One run of update_submodules; `returned` keeps what it returned together
\* with the working copy it was given.
run_update_submodules ==
    /\ Len(returned) < MaxRuns
    /\ LET r == update_submodules(ref, cloned_repository)
           made == IF r.updated.kind = "commit"
                   THEN <<update_commit(NoTarget, head_target, ref, r.count)>>
                   ELSE <<>>
       IN  /\ cloned_repository' = r.wc
           /\ head_target' = IF made = <<>> THEN head_target ELSE made[1].id
           /\ returned' = Append(returned,
                                 [updated |-> r.updated, count |-> r.count,
                                  seen |-> r.seen,
                                  before |-> cloned_repository,
                                  after |-> r.wc,
                                  head_before |-> head_target,
                                  commits |-> made])
    /\ UNCHANGED <<pc, cur, sub, commit, tree_changed, outcome>>
    /\ UNCHANGED cliVars
    /\ UNCHANGED effectVars
    /\ UNCHANGED <<latestVars, urlVars, forkVars>>

NextUpdate == run_update_submodules

SpecUpdate == InitUpdate /\ [][NextUpdate]_vars

\* ------------------------------------------- find_latest_branch on its own
r02 == <<"r", "0", "2">>
s7 == <<"s", "7">>

\* Branch names a repository can have.
BranchNames == {main, r2, r3, r10, rx, r02, s7}

\* Prefixes given as branch_startswith.
Prefixes == { <<>>, <<"r">>, <<"r", "1">>, <<"s">>, <<"t">> }

IsListing(l) == \A i, j \in 1..Len(l) : i # j => l[i] # l[j]

\* The state every process variable has while a function is run on its own.
Idle ==
    /\ pc = "function"
    /\ argv = <<>>
    /\ world = [r \in Repos |-> [exists |-> TRUE, branches |-> <<main>>]]
    /\ InitRun

\* find_latest_branch is called on the branches of a repository.
InitLatest ==
    /\ Idle
    /\ cloned_repository = <<>>
    /\ returned = <<>>
    /\ head_target = clone_head
    /\ repo_branches \in { l \in SeqsUpTo(BranchNames, MaxBranches) :
                               IsListing(l) }
    /\ prefix \in Prefixes
    /\ latest = NotCalled
    /\ NoUrlCall
    /\ NoForkCall

call_find_latest_branch ==
    /\ latest = NotCalled
    /\ latest' = find_latest_branch(repo_branches, prefix)
    /\ UNCHANGED <<repo_branches, prefix, cloned_repository, returned>>
    /\ UNCHANGED head_target
    /\ UNCHANGED <<urlVars, forkVars>>
    /\ UNCHANGED <<pc, cur, sub, commit, tree_changed, outcome>>
    /\ UNCHANGED cliVars
    /\ UNCHANGED effectVars

NextLatest == call_find_latest_branch

SpecLatest == InitLatest /\ [][NextLatest]_vars

\* --------------------------------------------- match_remote_url on its own
\* URLs a submodule entry can carry: scheme and separator, host, owner, name
\* and suffix, in either letter case where the source repository has letters.
Schemes ==
    { <<"https://", "/">>, <<"git://", "/">>, <<"ssh://git@", "/">>,
      <<"git@", ":">>, <<"http://", "/">> }

RemoteUrls ==
    { Url(sc[1], h, sc[2], o, n, sf) :
        sc \in Schemes, h \in {"github.com", "GitHub.com"},
        o \in {"o", "O", "p"}, n \in {"lib", "Lib", "tool"},
        sf \in {"", ".git"} }

\* match_remote_url is called with the source repository and a URL, any
\* number of times on the same repository object.
InitUrl ==
    /\ Idle
    /\ cloned_repository = <<>>
    /\ returned = <<>>
    /\ head_target = clone_head
    /\ NoLatest
    /\ NoUrlCall
    /\ NoForkCall

call_match_remote_url ==
    /\ \E url \in RemoteUrls :
          LET r == match_remote_url(cached_urls, source_repo, url)
          IN  /\ remote_url' = url
              /\ cached_urls' = r.cached
              /\ matched' = r.matched
    /\ UNCHANGED <<cloned_repository, returned, head_target, latestVars>>
    /\ UNCHANGED forkVars
    /\ UNCHANGED <<pc, cur, sub, commit, tree_changed, outcome>>
    /\ UNCHANGED cliVars
    /\ UNCHANGED effectVars

NextUrl == call_match_remote_url

SpecUrl == InitUrl /\ [][NextUrl]_vars

\* ------------------------------------------- get_or_create_fork on its own
\* get_or_create_fork is called, and called again, on a repository with
\* some forks; a fork that create_fork made is among the forks afterwards.
InitFork ==
    /\ Idle
    /\ cloned_repository = <<>>
    /\ returned = <<>>
    /\ head_target = clone_head
    /\ NoLatest
    /\ NoUrlCall
    /\ repo_forks \in ForkLists
    /\ fork = NoFork
    /\ create_fork_calls = 0

call_get_or_create_fork ==
    /\ create_fork_calls < MaxCreateForkCalls
    /\ LET f == find_fork(me, repo_forks)
       IN  IF f # 0
           THEN /\ fork' = [tag |-> "found", owner |-> repo_forks[f],
                            position |-> f]
                /\ UNCHANGED <<repo_forks, create_fork_calls>>
           ELSE /\ create_fork_calls' = create_fork_calls + 1
                /\ \E ok \in BOOLEAN :
                      IF ok
                      THEN /\ repo_forks' = Append(repo_forks, me)
                           /\ fork' = [tag |-> "created", owner |-> me,
                                       position |-> Len(repo_forks) + 1]
                      ELSE /\ repo_forks' = repo_forks
                           /\ fork' = [tag |-> "raise", owner |-> "",
                                       position |-> 0]
    /\ UNCHANGED <<cloned_repository, returned, head_target, latestVars>>
    /\ UNCHANGED urlVars
    /\ UNCHANGED <<pc, cur, sub, commit, tree_changed, outcome>>
    /\ UNCHANGED cliVars
    /\ UNCHANGED effectVars

NextFork == call_get_or_create_fork

SpecFork == InitFork /\ [][NextFork]_vars

\* ------------------------------------------------------------ properties
Ended == pc \in {"exit", "crashed", "usage_error"}

Base(repo) ==
    [id |-> clone_head, repo |-> repo, parents |-> <<>>,
     author |-> NoSignature, committer |-> NoSignature, message |-> <<>>]

\* The commits update_submodules can make on the clone of a repository.
UpdateCommits(repo) ==
    { update_commit(repo, clone_head, ref, n) : n \in 1..(MaxEntries + 1) }

\* The head of `branch` on the own remote of `repo`: the commit last pushed
\* to it, or the commit it had when it was cloned.
BranchHead(repo, branch) ==
    LET pushed == { p \in origin : p.repo = repo /\ p.ref = branch }
    IN  IF pushed = {} THEN Base(repo)
        ELSE (CHOOSE p \in pushed : TRUE).commit

\* C1: when the run has ended, every target listed after a target whose
\* processing failed has been attempted (its clone was started).
C1_LaterTargetsAttempted ==
    Ended =>
        \A i, j \in 1..Len(targets) :
            (i < j /\ outcome[targets[i].repo] = "Failed")
                => targets[j].repo \in clones

\* C2: a target that ended with a successful direct push has the update
\* commit as the head of the target branch on its own remote.
C2_TargetBranchIsUpdateCommit ==
    \A i \in 1..Len(targets) :
        outcome[targets[i].repo] = "PushedDirectly"
            => BranchHead(targets[i].repo, targets[i].branch)
                   \in UpdateCommits(targets[i].repo)

C3_OutcomeAfterFallback ==
    \A r \in push_failed :
        outcome[r] \notin {"Pending", "Failed"}
            => outcome[r] = IF dry_run THEN "DryRunBranch"
                            ELSE "ReviewRequestOpened"

\* The step in which the direct push fails goes on to the review-request
\* path and fails nothing.
C3_PushErrorCaught ==
    (pc = "push_commit" /\ push_failed' # push_failed)
        => (pc' = "get_or_create_fork" /\ outcome' = outcome)

C4_DryRun ==
    dry_run =>
        /\ push_attempts = {}
        /\ origin = {}
        /\ pulls = {}
        /\ \A r \in Repos :
               outcome[r] \notin {"Pending", "NoOp", "Failed"}
                   => /\ outcome[r] = "DryRunBranch"
                      /\ \E f \in fork_refs :
                             f.repo = r /\ f.commit \in UpdateCommits(r)

C4_Witness ==
    /\ dry_run
    /\ \E r \in Repos :
           /\ outcome[r] = "DryRunBranch"
           /\ \E f \in fork_refs : f.repo = r
    /\ pc = "exit"

\* C5: a second run of update_submodules on a working copy that a first run
\* has updated skips every entry, creates no commit and returns nothing.
C5_SecondRunIsNoOp ==
    (Len(returned) >= 2 /\ returned[1].updated.kind # "raise")
        => (returned[2].updated.kind = "none" /\ returned[2].count = 0)

\* The entries of a working copy that a run of update_submodules updates:
\* those of the source repository that are not at the reference's object id.
SourceUrls == {clone_url(source_repo), git_url(source_repo)}

UpdatedEntries(wc) ==
    { i \in 1..Len(wc) : wc[i].url \in SourceUrls /\ wc[i].head # ref.sha }

\* The tree of the commit the reference resolves to.
TargetTree == tree_id(get_object(ref.sha))

\* C6: the flag update_submodules returns with its commit is true exactly
\* when some updated entry's HEAD tree before the update differs from the
\* tree of the target commit.
C6_MaterialChangeIffTreeDiffers ==
    \A k \in 1..Len(returned) :
        returned[k].updated.kind = "commit"
            => (returned[k].updated.tree_changed
                  <=> \E i \in UpdatedEntries(returned[k].before) :
                          tree_id(returned[k].before[i].head) # TargetTree)

C6_Witness ==
    \E k \in 1..Len(returned) :
        /\ returned[k].updated.kind = "commit"
        /\ ~returned[k].updated.tree_changed
        /\ \E i \in UpdatedEntries(returned[k].before) :
               returned[k].before[i].head = "cSame"

\* A step that pushes or tries to push to a target's own remote is taken
\* with a commit whose flag is false.
C7_PushOnlyUnchangedTree ==
    (push_attempts' # push_attempts \/ origin' # origin) => ~tree_changed

\* A commit returned with a true flag is taken to the fork.
C7_ChangedTreeGoesToFork ==
    (pc = "update_submodules" /\ commit' # NoCommit /\ tree_changed')
        => pc' = "get_or_create_fork"

\* C7: a commit whose materialChange flag is true is never pushed to the
\* target's own remote; it goes straight to the fork and review request.
C7_MaterialChangeNeverPushed ==
    [][C7_PushOnlyUnchangedTree /\ C7_ChangedTreeGoesToFork]_vars

C7_Witness ==
    /\ tree_changed
    /\ pc = "status_pull"
    /\ target_repo \notin push_attempts
    /\ \E p \in pulls : p.repo = target_repo

\* C8: a target whose status post failed has ended normally, with the push
\* or the pull request that was made before the post still in place.
C8_StatusFailureNotFatal ==
    \A r \in status_failed :
        \/ /\ outcome[r] = "PushedDirectly"
           /\ \E p \in origin : p.repo = r /\ p.commit \in UpdateCommits(r)
        \/ /\ outcome[r] = "ReviewRequestOpened"
           /\ \E p \in pulls : p.repo = r /\ p.commit \in UpdateCommits(r)

C8_Witness ==
    /\ pc = "exit"
    /\ \E r \in status_failed : outcome[r] = "PushedDirectly"
    /\ \E r \in status_failed : outcome[r] = "ReviewRequestOpened"

\* The branch a token names once its marker is removed.
NamedBranch(token) ==
    LET name == rstrip(rstrip(token, "*"), "?")
    IN  IF name = <<>> THEN default_branch ELSE name

\* An argument without a branch part, or an exact one whose repository or
\* branch does not exist.
BadTarget(t) ==
    \/ t.branch = NoColon
    \/ /\ ~endswith(t.branch, "?")
       /\ ~endswith(t.branch, "*")
       /\ \/ ~world[t.repo].exists
          \/ ~InListing(world[t.repo].branches, NamedBranch(t.branch))

\* Nothing has been done for any target.
NothingTouched ==
    /\ NoEffects
    /\ cur = 0
    /\ commit = NoCommit
    /\ \A r \in Repos : outcome[r] = "Pending"

\* A step that meets a configuration error ends the process with the usage
\* error, and no step is taken after that.
C9_ErrorAborts ==
    /\ (pc = "validate" /\ argv # <<>> /\ BadTarget(Head(argv)))
           => pc' = "usage_error"
    /\ (pc = "validate" /\ argv = <<>> /\ ref' = NoRef)
           => pc' = "usage_error"
    /\ pc # "usage_error"

\* C9: a configuration error (argument without branch, unresolvable exact
\* target, missing source reference) aborts the run, and a run aborted this
\* way has cloned, pushed, forked, requested and posted nothing.
C9_ConfigErrorBeforeAnyWork ==
    /\ [](pc \in {"validate", "usage_error"} => NothingTouched)
    /\ [][C9_ErrorAborts]_vars

C9_Witness ==
    /\ pc = "usage_error"
    /\ targets # <<>>
    /\ argv # <<>>
    /\ BadTarget(Head(argv))

\* An optional argument of an existing repository whose branch is absent.
OptionalMissing(t) ==
    /\ t.branch # NoColon
    /\ endswith(t.branch, "?")
    /\ world[t.repo].exists
    /\ ~InListing(world[t.repo].branches, NamedBranch(t.branch))

\* The step on such an argument raises nothing, leaves the mapping as it is
\* and goes on with the remaining arguments.
C10_SkipStep ==
    (pc = "validate" /\ argv # <<>> /\ OptionalMissing(Head(argv)))
        => /\ pc' = "validate"
           /\ targets' = targets
           /\ argv' = Tail(argv)
           /\ skipped' = Append(skipped, Head(argv))

\* A skipped target is not in the mapping, and a run that ends normally has
\* processed every target of the mapping.
C10_SkippedAbsent ==
    /\ \A i \in 1..Len(skipped) : \A j \in 1..Len(targets) :
           targets[j] # [repo |-> skipped[i].repo,
                         branch |-> NamedBranch(skipped[i].branch)]
    /\ pc = "exit" => \A j \in 1..Len(targets) :
                          outcome[targets[j].repo] \notin {"Pending", "Failed"}

\* C10: an optional target whose branch does not exist raises no error, is
\* absent from the resolved mapping, and the remaining targets are still
\* resolved and processed.
C10_OptionalMissingSkipped == []C10_SkippedAbsent /\ [][C10_SkipStep]_vars

C10_Witness ==
    /\ pc = "exit"
    /\ \E i \in 1..Len(skipped) : OptionalMissing(skipped[i])
    /\ \E j \in 1..Len(targets) : outcome[targets[j].repo] = "PushedDirectly"

\* The branches of the repository whose name starts with the prefix.
Matching == { i \in 1..Len(repo_branches) : startswith(repo_branches[i], prefix) }

\* C11: the branch find_latest_branch returns starts with the prefix, and no
\* branch starting with the prefix has a numerically larger trailing run of
\* digits; of r3, r10 and r2 it returns r10.
C11_LatestIsNumericMax ==
    latest.tag = "ok" =>
        /\ \E i \in Matching : repo_branches[i] = latest.branch
        /\ \A i \in Matching :
               int(TrailingDigits(repo_branches[i]))
                   <= int(TrailingDigits(latest.branch))
        /\ (repo_branches = <<r3, r10, r2>> /\ prefix = <<"r">>)
               => latest.branch = r10

C11_Witness ==
    /\ repo_branches = <<r3, r10, r2>>
    /\ prefix = <<"r">>
    /\ latest = [tag |-> "ok", branch |-> r10]

\* C12: find_latest_branch fails with NotFoundError exactly when no branch
\* starts with the prefix, and otherwise returns a branch that does.
C12_NotFoundIffNoMatch ==
    latest # NotCalled =>
        /\ latest.tag = "notfound" <=> Matching = {}
        /\ Matching # {} =>
               /\ latest.tag = "ok"
               /\ \E i \in Matching : repo_branches[i] = latest.branch

\* The lower-case spelling of a part of a URL, and of a URL.
Lower(part) ==
    CASE part = "O" -> "o"
      [] part = "Lib" -> "lib"
      [] part = "GitHub.com" -> "github.com"
      [] OTHER -> part

lower(url) == [i \in DOMAIN url |-> Lower(url[i])]

\* The URL forms https://host/o/r.git, https://host/o/r, git://host/o/r.git
\* and ssh://git@host/o/r.git of a repository.
EquivalentUrls(repo) ==
    { Url("https://", "github.com", "/", repo.owner, repo.name, ".git"),
      Url("https://", "github.com", "/", repo.owner, repo.name, ""),
      Url("git://", "github.com", "/", repo.owner, repo.name, ".git"),
      Url("ssh://git@", "github.com", "/", repo.owner, repo.name, ".git") }

\* C13: match_remote_url answers true for each of the four URL forms of the
\* source repository, in whatever letter case the URL is written.
C13_UrlFormsRecognised ==
    (remote_url # <<>> /\ lower(remote_url) \in EquivalentUrls(source_repo))
        => matched

\* C14: the statuses posted on the source reference for two distinct targets
\* of one run carry distinct context keys.
C14_DistinctContextKeys ==
    \A s1, s2 \in statuses : s1.target # s2.target => s1.context # s2.context

\* A matched entry that initialises, is not at the target and lacks the
\* target object, so that fetch_object is called on it.
NeedsFetch(e) ==
    /\ e.url \in SourceUrls
    /\ e.init
    /\ \A k \in 1..Len(e.nested) : e.nested[k].init
    /\ e.head # ref.sha
    /\ ~e.has

\* The first remote, in declared order, whose fetch succeeds.
FirstSuccess(remotes) ==
    CHOOSE j \in 1..Len(remotes) :
        remotes[j] /\ \A i \in 1..(j - 1) : ~remotes[i]

\* C15: when fetch_object is called on an entry one of whose remotes can
\* deliver the object, the iteration over that entry does not raise, and the
\* remotes fetched from are those up to the first that succeeds.
C15_FirstSuccessfulFetchWins ==
    \A k \in 1..Len(returned) :
        \A i \in 1..returned[k].seen :
            LET run == returned[k]
                e == run.before[i]
            IN  (NeedsFetch(e) /\ \E j \in 1..Len(e.remotes) : e.remotes[j])
                    => /\ ~(run.updated.kind = "raise" /\ run.seen = i)
                       /\ run.after[i].fetched = FirstSuccess(e.remotes)

\* What the run has done for a target beyond cloning it.
Touched(r) ==
    \/ r \in push_attempts \cup push_failed \cup forks_created \cup status_failed
    \/ \E p \in origin \cup fork_refs \cup pulls : p.repo = r
    \/ \E s \in statuses : s.target = r

\* update_submodules leaves its loop without an entry counted: the target
\* ends in NoOp, run goes on, and nothing is published.
C16_NoOpStep ==
    (pc = "update_submodules" /\ pc' # "crashed" /\ sub.count = 0
        /\ sub' = NoProgress)
        => /\ pc' = "run"
           /\ outcome' = [outcome EXCEPT ![target_repo] = "NoOp"]
           /\ commit' = NoCommit
           /\ UNCHANGED effectVars

\* A target that ended in NoOp was cloned and nothing else.
C16_NoOpUntouched ==
    \A r \in Repos : outcome[r] = "NoOp" => (r \in clones /\ ~Touched(r))

\* C16: when update_submodules returns nothing for a target,
\* update_target_repo ends in NoOp and has pushed nothing, created no fork,
\* opened no pull request and posted no status for it.
C16_NoOpHasNoSideEffect == []C16_NoOpUntouched /\ [][C16_NoOpStep]_vars

C16_Witness ==
    /\ pc = "run"
    /\ cur = Len(targets)
    /\ \E r \in Repos : outcome[r] = "NoOp" /\ r \in clones
    /\ \E r \in Repos : outcome[r] = "PushedDirectly"

\* The iteration over entry i of a run was reached and did not raise.
Passed(run, i) == i <= run.seen /\ ~(run.updated.kind = "raise" /\ run.seen = i)

\* The entries a run has reset, staged and counted.
UpdatedBy(run) == { i \in UpdatedEntries(run.before) : Passed(run, i) }

\* C17 as stated: a submodule of a matched submodule whose URL is the source
\* repository's is itself taken through the update (reset and staged).
C17_NestedEntriesMatched ==
    \A k \in 1..Len(returned) :
        \A i \in 1..Len(returned[k].before) :
            LET run == returned[k]
            IN  (run.before[i].url \in SourceUrls /\ Passed(run, i))
                    => \A n \in 1..Len(run.after[i].nested) :
                           run.after[i].nested[n].url \in SourceUrls
                               => /\ run.after[i].nested[n].reset
                                  /\ run.after[i].nested[n].staged

\* C17 (amended): the submodules of a matched submodule are initialised,
\* whatever their URL, and nothing more: none is reset or staged, and the
\* count of the run is the number of top-level entries it updated.
C17_NestedOnlyInitialised ==
    \A k \in 1..Len(returned) :
        LET run == returned[k]
        IN  /\ run.count = Cardinality(UpdatedBy(run))
            /\ \A i \in 1..Len(run.before) :
                   \A n \in 1..Len(run.after[i].nested) :
                       /\ ~run.after[i].nested[n].reset
                       /\ ~run.after[i].nested[n].staged
                       /\ (run.before[i].url \in SourceUrls /\ Passed(run, i))
                              => run.after[i].nested[n].initialised

C17_Witness ==
    /\ Len(returned) = 1
    /\ returned[1].updated.kind = "commit"
    /\ returned[1].count = 1
    /\ \E i \in 1..Len(cloned_repository) :
          /\ cloned_repository[i].staged
          /\ Len(cloned_repository[i].nested) = 1
          /\ cloned_repository[i].nested[1].url \in SourceUrls
          /\ cloned_repository[i].nested[1].initialised
          /\ ~cloned_repository[i].nested[1].reset

\* The branch head a run of update_submodules found: the cloned head, or the
\* commit the run before it made.
HeadBefore(k) ==
    IF k > 1 /\ returned[k - 1].commits # <<>>
    THEN returned[k - 1].commits[1].id
    ELSE returned[k].head_before

\* C18: a run of update_submodules that returns after updating at least one
\* entry has made exactly one commit, however many entries it updated; the
\* only parent of the commit is the branch head the run found, and its
\* author and its committer are the identity that was supplied.
C18_OneCommitOnBranchHead ==
    /\ returned # <<>> => returned[1].head_before = clone_head
    /\ \A k \in 1..Len(returned) :
        LET run == returned[k]
        IN  (run.updated.kind # "raise" /\ UpdatedBy(run) # {})
                => /\ Len(run.commits) = 1
                   /\ run.commits[1].parents = <<HeadBefore(k)>>
                   /\ run.commits[1].author = committer
                   /\ run.commits[1].committer = committer
                   /\ k = Len(returned) => head_target = run.commits[1].id

C18_Witness ==
    /\ Len(returned) = 2
    /\ returned[1].count = 2
    /\ Len(returned[1].commits) = 1
    /\ Len(returned[2].commits) = 1
    /\ returned[2].commits[1].parents = <<returned[1].commits[1].id>>
    /\ returned[1].commits[1].parents = <<clone_head>>

\* The pieces a commit message is made of.
Pieces(m) == { m[t] : t \in DOMAIN m }

\* C19 as stated: the message of the commit lists the name of every entry the
\* run updated.
C19_MessageListsUpdatedNames ==
    \A k \in 1..Len(returned) :
        returned[k].commits # <<>>
            => \A i \in UpdatedBy(returned[k]) :
                   submodule_path(i) \in Pieces(returned[k].commits[1].message)

\* C19 (amended): the message names the source repository and the target
\* object, with "submodules" in the plural when more than one entry was
\* updated; no entry is named in it for having been updated.
C19_MessageNamesSource ==
    \A k \in 1..Len(returned) :
        returned[k].commits # <<>>
            => LET m == returned[k].commits[1].message
                   n == Cardinality(UpdatedBy(returned[k]))
               IN  /\ SubSeq(m, 1, 3) = <<"Update ", source_repo.name, " submodule">>
                   /\ m[4] = (IF n > 1 THEN "s" ELSE "")
                   /\ SubSeq(m, 5, 10)
                        = <<" to ", source_repo.owner, "/", source_repo.name,
                            "@", ref.sha>>
                   /\ Len(m) = 11
                   /\ \A i \in 1..Len(returned[k].before) :
                          submodule_path(i) # source_repo.name
                              => submodule_path(i) \notin Pieces(m)

C19_Witness ==
    /\ Len(returned) = 1
    /\ returned[1].commits # <<>>
    /\ UpdatedBy(returned[1]) = {1, 2}
    /\ returned[1].commits[1].message[4] = "s"
    /\ submodule_path(2) \notin Pieces(returned[1].commits[1].message)

\* The top-level entries of a working copy whose URL is none of the source
\* repository's URLs.
NonMatching(wc) ==
    { i \in 1..Len(wc) : wc[i].url \notin possible_clone_urls(source_repo) }

\* C20: a top-level entry whose URL does not match the source repository is
\* left as it was by every run of update_submodules: not initialised, not
\* reset, not staged, its HEAD where it was, and not counted.
C20_NonMatchingUntouched ==
    \A k \in 1..Len(returned) :
        LET run == returned[k]
        IN  /\ \A i \in NonMatching(run.before) :
                   /\ run.after[i] = run.before[i]
                   /\ ~run.after[i].initialised
                   /\ ~run.after[i].reset
                   /\ ~run.after[i].staged
            /\ run.count <= Len(run.before) - Cardinality(NonMatching(run.before))

C20_Witness ==
    /\ Len(returned) = 1
    /\ returned[1].updated.kind = "commit"
    /\ returned[1].seen = 2
    /\ returned[1].count = 1
    /\ NonMatching(returned[1].before) = {1}
    /\ returned[1].before[1].head # get_object(ref.sha)
    /\ cloned_repository[1] = returned[1].before[1]
    /\ cloned_repository[2].staged

\* The acting identity owns one of the forks of the repository.
HasOwnFork == \E i \in 1..Len(repo_forks) : repo_forks[i] = me

\* create_fork is called only when no fork is owned by the acting identity.
C21_CreateOnlyWhenAbsent ==
    create_fork_calls' # create_fork_calls => ~HasOwnFork

\* An existing fork of the acting identity is what the call returns, and
\* neither a fork nor a call of create_fork is added.
C21_ExistingForkReturned ==
    (HasOwnFork /\ fork' # fork)
        => /\ fork'.tag = "found"
           /\ fork'.owner = me
           /\ repo_forks[fork'.position] = me
           /\ UNCHANGED <<repo_forks, create_fork_calls>>

\* C21: get_or_create_fork calls create_fork only when the repository has no
\* fork owned by the acting identity; when it has one, that fork is returned
\* and create_fork is not called.
C21_ForkCreatedOnlyWhenAbsent ==
    [][C21_CreateOnlyWhenAbsent /\ C21_ExistingForkReturned]_vars

C21_Witness ==
    /\ create_fork_calls = 1
    /\ Len(repo_forks) = 3
    /\ repo_forks[3] = me
    /\ fork = [tag |-> "found", owner |-> me, position |-> 3]

\* What was published for a target: branches pushed to its own remote,
\* branches pushed to the fork, pull requests, and the statuses posted.
PushedTo(r) == { p \in origin : p.repo = r }

ForkBranches(r) == { p \in fork_refs : p.repo = r }

PullsOf(r) == { p \in pulls : p.repo = r }

StatusesOf(r) == { s \in statuses : s.target = r }

\* C22: for every target there is at most one publication and at most one
\* status: a target whose direct push succeeded has no fork branch and no
\* pull request, and a pull request is there only for a target whose direct
\* push was not attempted or failed.
C22_AtMostOnePublication ==
    \A r \in Repos :
        /\ Cardinality(PushedTo(r)) + Cardinality(PullsOf(r)) <= 1
        /\ Cardinality(ForkBranches(r)) <= 1
        /\ Cardinality(StatusesOf(r)) <= 1
        /\ PushedTo(r) # {} => (ForkBranches(r) = {} /\ PullsOf(r) = {})
        /\ PullsOf(r) # {} => (r \notin push_attempts \/ r \in push_failed)

C22_Witness ==
    /\ pc = "exit"
    /\ \E p, q \in Repos :
          /\ PushedTo(p) # {} /\ StatusesOf(p) # {}
          /\ q \in push_failed /\ PullsOf(q) # {} /\ StatusesOf(q) # {}

\* Every status posted reports a publication that is there: a push status a
\* branch pushed to the target's own remote, a pull status a pull request.
C23_StatusReportsPublication ==
    \A s \in statuses :
        /\ s.context[1] = "submodule-updater/push/" => PushedTo(s.target) # {}
        /\ s.context[1] = "submodule-updater/pull/" => PullsOf(s.target) # {}
        /\ s.context[1] \in {"submodule-updater/push/", "submodule-updater/pull/"}

\* A target that ended in NoOp, DryRunBranch or failure has no status.
C23_NoStatusWithoutSuccess ==
    \A r \in Repos :
        outcome[r] \in {"NoOp", "DryRunBranch", "Failed"} => StatusesOf(r) = {}

\* The step that posts a status finds the publication already made.
C23_PublicationBeforeStatus ==
    statuses' # statuses
        => \A s \in statuses' \ statuses :
               /\ s.target = target_repo
               /\ s.context[1] = "submodule-updater/push/"
                      => (pc = "status_push" /\ PushedTo(target_repo) # {})
               /\ s.context[1] = "submodule-updater/pull/"
                      => (pc = "status_pull" /\ PullsOf(target_repo) # {})

\* C23: a status is posted on the source reference only after the
\* publication it reports: the push status after the direct push succeeded,
\* the pull status after the pull request was created; a target that ends in
\* NoOp, DryRunBranch or failure gets no status.
C23_StatusOnlyAfterPublication ==
    /\ [](C23_StatusReportsPublication /\ C23_NoStatusWithoutSuccess)
    /\ [][C23_PublicationBeforeStatus]_vars

C23_Witness ==
    /\ pc = "exit"
    /\ \E p, q \in Repos :
          /\ outcome[p] = "ReviewRequestOpened"
          /\ \E s \in StatusesOf(p) : s.context[1] = "submodule-updater/pull/"
          /\ outcome[q] \in {"NoOp", "DryRunBranch"}
          /\ StatusesOf(q) = {}

\* Once an iteration of update_submodules has raised for the current target,
\* the target has failed with no commit and nothing published.
C24_FailedUpdateUnpublished ==
    sub.raised
        => /\ commit = NoCommit
           /\ outcome[target_repo] = "Failed"
           /\ target_repo \in clones
           /\ ~Touched(target_repo)

\* The step in which an iteration raises, and every step after it, creates no
\* commit and publishes nothing.
C24_NoCommitAfterFailure ==
    (sub.raised \/ sub'.raised)
        => /\ commit' = NoCommit
           /\ UNCHANGED effectVars

\* C24: when update_submodules fails on a matching entry, also after earlier
\* entries were reset and staged, no commit is created and nothing is
\* published for the target: no push, no fork branch, no pull request and no
\* status.
C24_FailedUpdatePublishesNothing ==
    []C24_FailedUpdateUnpublished /\ [][C24_NoCommitAfterFailure]_vars

C24_Witness ==
    /\ sub.raised
    /\ sub.count = 1
    /\ sub.seen = 2
    /\ commit = NoCommit
    /\ ~Touched(target_repo)
    /\ cur = 2
    /\ outcome[targets[1].repo] = "PushedDirectly"
====
